---- MODULE Spec2Model ----
(***************************************************************************)
(* Key/value backend abstraction (package backend): the LevelDB binding    *)
(* with its emulated transactions and the BoltDB binding.                  *)
(*                                                                         *)
(* src/leveldb.go holds three revisions of the LevelDB binding:            *)
(*   "levelrw"  lines 1-355    Writable()/Readonly() API, ErrNotFound      *)
(*   "leveltxn" lines 357-727  Txn()/Get/BatchGet API (lines 729-1110 are  *)
(*                             the same transaction code)                  *)
(*   "leveltxn3" lines 729-1110  the same but for LevelDB.Close, which has  *)
(*                             lost its check                              *)
(* src/boltdb.go is the BoltDB binding ("bolt").                           *)
(* The engines themselves (LevelDB, Bolt) are external: their calls are    *)
(* modelled by their documented behaviour (atomic batch write, iterators   *)
(* and read transactions over the state at creation, one writer at a time).*)
(***************************************************************************)
EXTENDS Integers, Sequences, FiniteSets, TLC

\* ------------------------------------------------------------ bounds
MaxTxn == 4      \* transaction handles a run may request
MaxTxnAll == 3   \* transaction handles requested in a run of the specifications
                 \* other than SpecLevelTxn
MaxIter == 1     \* iterators a run may create
MaxOps == 2      \* Put/Delete calls a run may make
MaxTxnIter == 2  \* transaction handles requested in a run that also reads through iterators

TxnIds == 1..MaxTxn
\* keys in one BatchGet call
MaxBatch == 2
\* BatchGet calls a run may make key by key
MaxBatchCalls == 1
\* Close calls on the database a run may make
MaxCloses == 2
\* calls in a row on one iterator that returned nil, as far as they are counted
MaxNils == 2
IterIds == 1..MaxIter

\* ------------------------------------------------------------ byte slices
\* A []byte is a sequence of bytes. Nil is the nil slice, Unset marks a key
\* that is not in a Go map; both differ from every slice, the empty one too.
Nil == <<-1>>
Unset == <<-2>>
Empty == <<>>

KeySet == {<<1>>, <<1, 2>>, <<2>>}
ValueSet == {<<7>>, <<8>>}
\* what a caller may pass
InputKeys == KeySet \cup {Empty}
InputValues == ValueSet \cup {Empty}

\* the key lists a BatchGet call is given: of a key that Seeded holds, one
\* that it does not, and the empty key
BatchKeys == {<<1>>, <<1, 2>>, Empty}
KeySeqs == UNION {[1..n -> BatchKeys] : n \in 0..MaxBatch}
Backends == {"levelrw", "leveltxn", "bolt"}
\* the revisions with the Txn() API
LevelTxns == {"leveltxn", "leveltxn3"}

VARIABLES
    backend,   \* which binding the DB value is
    tree,      \* db.tree: the committed contents, key -> value or Nil
    writer,    \* db.writer (LevelDB.writer / Bolt's writer lock) is held
    txn,       \* the transaction handles: levelTxn / boltTxn
    iters,     \* the iterators: levelIterator / boltIterator
    ret,       \* what the last call returned
    crashed,   \* the process died (Go fatal error or native fault)
    hist,      \* history of each open transaction: the tree at its begin, its last
               \* write of each key
    nops,      \* history: the Put/Delete calls made so far
    born,      \* history of each open iterator: the tree when Iterator() returned it
    bg,        \* the BatchGet call in progress (or the last one): its keys, its
               \* position in them, its snapshot, what it handed to the getter
    native,    \* the engine: how many of its snapshots (Bolt: read transactions)
               \* are live, whether the database handle is open, and (history)
               \* how many Close calls were made on the database
    walk       \* history of each open iterator: the traversal it is in, the keys
               \* the traversal returned so far, whether it has returned nil

vars == <<backend, tree, writer, txn, iters, ret, crashed, hist, nops, born, bg, walk, native>>

Views == [KeySet -> ValueSet \cup {Empty, Nil}]
EmptyView == [k \in KeySet |-> Nil]
NoMap == [k \in KeySet |-> Unset]

\* ------------------------------------------------------------ bytes.Compare
Min(a, b) == IF a < b THEN a ELSE b

\* the first index at which two slices differ, or 0
FirstDiff(a, b) ==
    LET D == {i \in 1..Min(Len(a), Len(b)) : a[i] # b[i]}
    IN  IF D = {} THEN 0 ELSE CHOOSE i \in D : \A j \in D : i <= j

bytesCompare(a, b) ==
    LET d == FirstDiff(a, b)
    IN  IF d # 0 THEN (IF a[d] < b[d] THEN -1 ELSE 1)
        ELSE IF Len(a) < Len(b) THEN -1
        ELSE IF Len(a) > Len(b) THEN 1
        ELSE 0

\* ------------------------------------------------------------ values
Ret(op, id, key, val, err) ==
    [op |-> op, id |-> id, key |-> key, val |-> val, err |-> err]

NoTxn ==
    [st |-> "none", rw |-> FALSE, writable |-> FALSE, modified |-> NoMap,
     batch |-> <<>>, view |-> EmptyView]

NoWalk == [dir |-> "none", seen |-> <<>>, done |-> FALSE, nils |-> 0]

NoHist == [begin |-> EmptyView, written |-> NoMap]

NoIter == [st |-> "none", view |-> EmptyView, pos |-> Nil]

\* OpenLevelDB / OpenBoltDB open a database that is new or that holds what
\* earlier runs committed.
\* no BatchGet call yet. out: the pairs handed to the getter so far; errs: how
\* many getter calls returned an error; begin (history): the tree when the
\* call started; calls (history): the key-by-key calls made so far
NoBatch ==
    [st |-> "idle", keys |-> <<>>, n |-> 1, view |-> EmptyView, out |-> <<>>,
     errs |-> 0, begin |-> EmptyView, calls |-> 0]

Seeded == [k \in KeySet |-> IF k = <<1>> THEN <<7>> ELSE IF k = <<2>> THEN <<8>> ELSE Nil]

\* a database just opened
Opened ==
    /\ tree \in {EmptyView, Seeded}
    /\ writer = FALSE
    /\ txn = [t \in TxnIds |-> NoTxn]
    /\ iters = [i \in IterIds |-> NoIter]
    /\ ret = Ret("none", 0, Nil, Nil, "nil")
    /\ crashed = FALSE
    /\ hist = [t \in TxnIds |-> NoHist]
    /\ nops = 0
    /\ born = [i \in IterIds |-> EmptyView]
    /\ bg = NoBatch
    /\ walk = [i \in IterIds |-> NoWalk]
    /\ native = [snaps |-> 0, open |-> TRUE, closes |-> 0]

Init ==
    /\ backend \in Backends
    /\ Opened

\* ------------------------------------------------------------ engine primitives
\* leveldb_create_snapshot / leveldb_release_snapshot (Bolt: Begin(false) and
\* the read transaction's Rollback)
createSnapshot == [native EXCEPT !.snaps = @ + 1]
releaseSnapshot == [native EXCEPT !.snaps = @ - 1]
\* a snapshot taken and released within one call
releaseSnapshotOf(n) == [n EXCEPT !.snaps = @ - 1]

\* the keys a view holds
Present(view) == {k \in KeySet : view[k] # Nil}

\* leveldb_iter_seek / bolt Cursor.Seek: the smallest key >= key, or Nil
SeekKey(view, key) ==
    LET S == {k \in Present(view) : bytesCompare(k, key) >= 0}
    IN  IF S = {} THEN Nil
        ELSE CHOOSE k \in S : \A j \in S : bytesCompare(k, j) <= 0

\* leveldb_write: the batch's operations, in append order, as one atomic write
RECURSIVE ApplyBatch(_, _)
ApplyBatch(view, batch) ==
    IF batch = <<>> THEN view
    ELSE LET e == Head(batch)
         IN  ApplyBatch([view EXCEPT ![e.key] = IF e.op = "put" THEN e.value ELSE Nil],
                        Tail(batch))

\* ------------------------------------------------------------ begin
\* newLevelTxn: the struct literal never sets the writable field; t.iter is a
\* LevelDB iterator, which reads the database as it is when the iterator is made.
newLevelTxn(writable) ==
    [st |-> "open", rw |-> writable, writable |-> FALSE, modified |-> NoMap,
     batch |-> <<>>, view |-> tree]

\* LevelDB.Txn (second revision): default read options, no snapshot, no iterator;
\* the transaction keeps a pointer to db.writer
levelTxnNew ==
    [st |-> "open", rw |-> TRUE, writable |-> TRUE, modified |-> NoMap,
     batch |-> <<>>, view |-> EmptyView]

\* BoltDB.Txn: tx.Bucket(rootBucket) of a writable bolt transaction
boltTxnNew ==
    [st |-> "open", rw |-> TRUE, writable |-> TRUE, modified |-> NoMap,
     batch |-> <<>>, view |-> tree]

NewTxn ==
    CASE backend = "levelrw" -> newLevelTxn(TRUE)
      [] backend \in LevelTxns -> levelTxnNew
      [] OTHER -> boltTxnNew

\* handles are taken in order
NextFree(t) == txn[t].st = "none" /\ \A u \in TxnIds : u < t => txn[u].st # "none"

\* what Writable() / Txn() leaves behind once db.writer.Lock() (bolt:
\* db.tree.Begin(true), which takes Bolt's writer lock) has returned
Begun(t) ==
    /\ writer' = TRUE
    /\ txn' = [txn EXCEPT ![t] = NewTxn]
    /\ hist' = [hist EXCEPT ![t].begin = tree]
    /\ ret' = Ret("Writable", t, Nil, Nil, "nil")
    /\ UNCHANGED <<native, walk, bg, backend, tree, iters, crashed, nops, born>>

\* A caller enters Writable() / Txn(). With the lock free the call returns the
\* transaction; with the lock held the caller stays in Lock().
Writable(t) ==
    /\ ~crashed
    /\ NextFree(t)
    /\ IF writer
       THEN /\ txn' = [txn EXCEPT ![t].st = "wait", ![t].rw = TRUE]
            /\ UNCHANGED <<native, walk, bg, backend, tree, writer, iters, ret, crashed, hist, nops, born>>
       ELSE Begun(t)

\* The lock is granted to a caller waiting in Lock(); its call returns.
WritableLock(t) ==
    /\ ~crashed
    /\ txn[t].st = "wait"
    /\ ~writer
    /\ Begun(t)

\* LevelDB.Readonly: never touches db.writer
\* (ReadonlyLocking is the variant that takes the writer lock as Writable does.)
ReadonlyLocking(t) ==
    /\ ~crashed
    /\ backend = "levelrw"
    /\ NextFree(t)
    /\ ~writer
    /\ writer' = TRUE
    /\ txn' = [txn EXCEPT ![t] = newLevelTxn(FALSE)]
    /\ hist' = [hist EXCEPT ![t].begin = tree]
    /\ native' = createSnapshot
    /\ ret' = Ret("Readonly", t, Nil, Nil, "nil")
    /\ UNCHANGED <<walk, bg, backend, tree, iters, crashed, nops, born>>

Readonly(t) ==
    /\ ~crashed
    /\ backend = "levelrw"
    /\ NextFree(t)
    /\ txn' = [txn EXCEPT ![t] = newLevelTxn(FALSE)]
    /\ hist' = [hist EXCEPT ![t].begin = tree]
    /\ native' = createSnapshot
    /\ ret' = Ret("Readonly", t, Nil, Nil, "nil")
    /\ UNCHANGED <<walk, bg, backend, tree, writer, iters, crashed, nops, born>>

\* ------------------------------------------------------------ Get
\* levelIterator.get: seek, then compare the key found with the key asked for
levelIteratorGet(view, key) ==
    LET k == SeekKey(view, key)
    IN  IF k = Nil THEN <<Nil, "ErrNotFound">>
        ELSE IF bytesCompare(k, key) # 0 THEN <<Nil, "ErrNotFound">>
        ELSE <<view[k], "nil">>

\* levelTxn.Get (first revision): the overlay, then the transaction's iterator.
\* &key[0] of an empty key panics (index out of range). After close() the map
\* is nil (nothing found) and the iterator's handle is nil: leveldb_iter_seek
\* dereferences it, which ends the process.
levelTxnGet(t, key) ==
    LET v == IF key \in KeySet THEN txn[t].modified[key] ELSE Unset
    IN  IF txn[t].st = "closed"
        THEN IF key = Empty THEN <<Nil, "panic">> ELSE <<Nil, "fatal">>
        ELSE
        IF v = Unset
        THEN IF key = Empty THEN <<Nil, "panic">>
             ELSE levelIteratorGet(txn[t].view, key)
        ELSE IF v = Nil THEN <<Nil, "ErrNotFound">>
        ELSE <<v, "nil">>

\* levelTxn.Get (second revision): the overlay, then a fresh iterator made
\* with the default read options, that is over the database as it is now;
\* absence is reported as (nil, nil). After close() the map is nil and so are
\* the read options handed to leveldb_create_iterator, which dereferences them.
levelTxnGet2(t, key) ==
    LET v == IF key \in KeySet THEN txn[t].modified[key] ELSE Unset
    IN  IF txn[t].st = "closed" THEN <<Nil, "fatal">>
        ELSE
        IF v = Unset
        THEN IF key = Empty THEN <<Nil, "panic">>
             ELSE LET k == SeekKey(tree, key)
                  IN  IF k = Nil THEN <<Nil, "nil">>
                      ELSE IF bytesCompare(key, k) # 0 THEN <<Nil, "nil">>
                      ELSE <<tree[k], "nil">>
        ELSE <<v, "nil">>

\* boltTxn.Get: (nil, nil) once t.tx is nil; otherwise t.b.Get(key), nil. Bucket.Get seeks and returns nil unless the
\* key found equals the key asked for.
boltTxnGet(t, key) ==
    LET k == SeekKey(txn[t].view, key)
    IN  IF txn[t].st = "closed" THEN <<Nil, "nil">>
        ELSE IF k = Nil \/ k # key THEN <<Nil, "nil">>
        ELSE <<txn[t].view[k], "nil">>

TxnGetResult(t, key) ==
    CASE backend = "levelrw" -> levelTxnGet(t, key)
      [] backend \in LevelTxns -> levelTxnGet2(t, key)
      [] OTHER -> boltTxnGet(t, key)

TxnGet(t, key) ==
    /\ ~crashed
    /\ txn[t].st = "open"
    /\ LET r == TxnGetResult(t, key)
       IN  ret' = Ret("Get", t, key, r[1], r[2])
    /\ UNCHANGED <<native, walk, bg, backend, tree, writer, txn, iters, crashed, hist, nops, born>>

\* ------------------------------------------------------------ Put
\* levelTxn.Put (the same in every revision): &key[0] and &value[0] panic on an
\* empty slice; otherwise the put is appended to the batch and the overlay set.
\* After close() t.batch is nil and leveldb_writebatch_put dereferences it.
\* (levelTxnPutBatchOnly is the variant without the overlay, t.modified, which
\* read-your-writes depends on.)
levelTxnPutBatchOnly(tx, key, value) ==
    IF key = Empty \/ value = Empty
    THEN [tx |-> tx, err |-> "panic"]
    ELSE [tx |-> [tx EXCEPT
                    !.batch = Append(@, [op |-> "put", key |-> key, value |-> value])],
          err |-> "nil"]

levelTxnPut(tx, key, value) ==
    IF key = Empty \/ value = Empty
    THEN [tx |-> tx, err |-> "panic"]
    ELSE IF tx.st = "closed" THEN [tx |-> tx, err |-> "fatal"]
    ELSE [tx |-> [tx EXCEPT
                    !.batch = Append(@, [op |-> "put", key |-> key, value |-> value]),
                    !.modified[key] = value],
          err |-> "nil"]

\* boltTxn.Put: nil once t.tx is nil; Bucket.Put refuses an empty key (ErrKeyRequired)
boltTxnPut(tx, key, value) ==
    IF tx.st = "closed" THEN [tx |-> tx, err |-> "nil"]
    ELSE IF key = Empty
    THEN [tx |-> tx, err |-> "ErrKeyRequired"]
    ELSE [tx |-> [tx EXCEPT !.view[key] = value], err |-> "nil"]

TxnPutResult(tx, key, value) ==
    IF backend = "bolt" THEN boltTxnPut(tx, key, value)
    ELSE levelTxnPut(tx, key, value)

\* history: a call that returned nil is recorded as the last write of its key
Wrote(h, key, value, err) ==
    IF err = "nil" /\ key \in KeySet THEN [h EXCEPT !.written[key] = value] ELSE h

\* (TxnPutThrough is the variant that writes through to the database, which
\* the invisibility of uncommitted writes excludes.)
TxnPutThrough(t, key, value) ==
    /\ ~crashed
    /\ txn[t].st = "open" /\ txn[t].rw
    /\ nops < MaxOps
    /\ nops' = nops + 1
    /\ LET r == TxnPutResult(txn[t], key, value)
       IN  /\ txn' = [txn EXCEPT ![t] = r.tx]
           /\ ret' = Ret("Put", t, key, value, r.err)
           /\ hist' = [hist EXCEPT ![t] = Wrote(@, key, value, r.err)]
           /\ tree' = IF r.err = "nil" /\ key \in KeySet
                      THEN [tree EXCEPT ![key] = value] ELSE tree
    /\ UNCHANGED <<native, walk, bg, backend, writer, iters, crashed, born>>

TxnPut(t, key, value) ==
    /\ ~crashed
    /\ txn[t].st = "open" /\ txn[t].rw
    /\ nops < MaxOps
    /\ nops' = nops + 1
    /\ LET r == TxnPutResult(txn[t], key, value)
       IN  /\ txn' = [txn EXCEPT ![t] = r.tx]
           /\ ret' = Ret("Put", t, key, value, r.err)
           /\ hist' = [hist EXCEPT ![t] = Wrote(@, key, value, r.err)]
    /\ UNCHANGED <<native, walk, bg, backend, tree, writer, iters, crashed, born>>

\* ------------------------------------------------------------ Delete
\* (levelTxnDeleteOverlayOnly is the variant that records the tombstone in
\* t.modified without appending the delete to the batch.)
levelTxnDeleteOverlayOnly(tx, key) ==
    IF key = Empty
    THEN [tx |-> tx, err |-> "panic"]
    ELSE IF tx.st = "closed" THEN [tx |-> tx, err |-> "fatal"]
    ELSE [tx |-> [tx EXCEPT !.modified[key] = Nil], err |-> "nil"]

\* levelTxn.Delete (first revision); after close() t.batch is nil and
\* leveldb_writebatch_delete dereferences it
levelTxnDelete(tx, key) ==
    IF key = Empty
    THEN [tx |-> tx, err |-> "panic"]
    ELSE IF tx.st = "closed" THEN [tx |-> tx, err |-> "fatal"]
    ELSE [tx |-> [tx EXCEPT
                    !.batch = Append(@, [op |-> "del", key |-> key, value |-> Nil]),
                    !.modified[key] = Nil],
          err |-> "nil"]

\* levelTxn.Delete (second revision): return nil
levelTxnDelete2(tx, key) == [tx |-> tx, err |-> "nil"]

\* boltTxn.Delete: nil once t.tx is nil; Bucket.Delete; a key that does not exist is no error
boltTxnDelete(tx, key) ==
    IF tx.st = "closed" THEN [tx |-> tx, err |-> "nil"]
    ELSE IF key \in KeySet
    THEN [tx |-> [tx EXCEPT !.view[key] = Nil], err |-> "nil"]
    ELSE [tx |-> tx, err |-> "nil"]

TxnDeleteResult(tx, key) ==
    CASE backend = "levelrw" -> levelTxnDelete(tx, key)
      [] backend \in LevelTxns -> levelTxnDelete2(tx, key)
      [] OTHER -> boltTxnDelete(tx, key)

TxnDelete(t, key) ==
    /\ ~crashed
    /\ txn[t].st = "open" /\ txn[t].rw
    /\ nops < MaxOps
    /\ nops' = nops + 1
    /\ LET r == TxnDeleteResult(txn[t], key)
       IN  /\ txn' = [txn EXCEPT ![t] = r.tx]
           /\ ret' = Ret("Delete", t, key, Nil, r.err)
           /\ hist' = [hist EXCEPT ![t] = Wrote(@, key, Nil, r.err)]
    /\ UNCHANGED <<native, walk, bg, backend, tree, writer, iters, crashed, born>>

\* ------------------------------------------------------------ calls after the end
\* Get, Put and Delete called on a transaction that Commit or Rollback has
\* ended. A nil dereference inside the engine ends the process.
TxnGetEnded(t, key) ==
    /\ ~crashed
    /\ txn[t].st = "closed"
    /\ LET r == TxnGetResult(t, key)
       IN  /\ ret' = Ret("Get", t, key, r[1], r[2])
           /\ crashed' = (r[2] = "fatal")
    /\ UNCHANGED <<native, walk, bg, backend, tree, writer, txn, iters, hist, nops, born>>

TxnPutEnded(t, key, value) ==
    /\ ~crashed
    /\ txn[t].st = "closed" /\ txn[t].rw
    /\ LET r == TxnPutResult(txn[t], key, value)
       IN  /\ txn' = [txn EXCEPT ![t] = r.tx]
           /\ ret' = Ret("Put", t, key, value, r.err)
           /\ crashed' = (r.err = "fatal")
    /\ UNCHANGED <<native, walk, bg, backend, tree, writer, iters, hist, nops, born>>

TxnDeleteEnded(t, key) ==
    /\ ~crashed
    /\ txn[t].st = "closed" /\ txn[t].rw
    /\ LET r == TxnDeleteResult(txn[t], key)
       IN  /\ txn' = [txn EXCEPT ![t] = r.tx]
           /\ ret' = Ret("Delete", t, key, Nil, r.err)
           /\ crashed' = (r.err = "fatal")
    /\ UNCHANGED <<native, walk, bg, backend, tree, writer, iters, hist, nops, born>>

\* ------------------------------------------------------------ Rollback / Commit
\* levelTxn.close: the batch, the options (and in the first revision the
\* iterator) are destroyed and the fields set to nil
levelTxnClose(tx) ==
    [tx EXCEPT !.st = "closed", !.modified = NoMap, !.batch = <<>>, !.view = EmptyView]

\* boltTxn: t.tx = nil
boltTxnClose(tx) ==
    [tx EXCEPT !.st = "closed", !.view = EmptyView]

\* sync.Mutex.Unlock: unlocking a mutex that is not locked is a fatal error
\* ("sync: unlock of unlocked mutex"), which no recover() catches
Unlock(held) == [held |-> FALSE, fatal |-> ~held]

Outcome(tx, tr, w, fatal, err) ==
    [tx |-> tx, tree |-> tr, writer |-> w, fatal |-> fatal, err |-> err]

\* levelTxn.Rollback (first revision): refused once t.batch is nil; the lock is
\* released only if t.writable
levelTxnRollback(tx) ==
    IF tx.st = "closed" THEN Outcome(tx, tree, writer, FALSE, "unopened")
    ELSE LET u == IF tx.writable THEN Unlock(writer)
                  ELSE [held |-> writer, fatal |-> FALSE]
         IN  IF u.fatal THEN Outcome(tx, tree, writer, TRUE, "fatal")
             ELSE Outcome(levelTxnClose(tx), tree, u.held, FALSE, "nil")

\* levelTxn.Rollback (second revision): t.writer.Unlock(); t.close(); return nil.
\* Nothing looks at whether the transaction is still open; close() on nil
\* handles is harmless (the destroy calls delete a null pointer).
levelTxnRollback2(tx) ==
    LET u == Unlock(writer)
    IN  IF u.fatal THEN Outcome(tx, tree, writer, TRUE, "fatal")
        ELSE Outcome(levelTxnClose(tx), tree, u.held, FALSE, "nil")

\* boltTxn.Rollback: nothing once t.tx is nil; tx.Rollback releases Bolt's writer lock
boltTxnRollback(tx) ==
    IF tx.st = "closed" THEN Outcome(tx, tree, writer, FALSE, "nil")
    ELSE Outcome(boltTxnClose(tx), tree, FALSE, FALSE, "nil")

TxnRollbackResult(tx) ==
    CASE backend = "levelrw" -> levelTxnRollback(tx)
      [] backend \in LevelTxns -> levelTxnRollback2(tx)
      [] OTHER -> boltTxnRollback(tx)

\* history: kept only while the transaction is open
Ended(h, tx, how) == NoHist

\* the snap field of an iterator made with a snapshot. newLevelIterator of the
\* first revision assigns the snapshot to a variable of the inner block
\* (`snap := ...` inside `if snapshot {`), so the field stays nil.
IterSnap == backend # "levelrw"

\* newLevelTxn(db, false) asks newLevelIterator for a snapshot; the other
\* transactions take none from the engine
TxnSnapshot(tx) == backend = "levelrw" /\ ~tx.rw

\* what a terminating call leaves behind. levelTxn.close closes the
\* transaction's iterator, which releases the snapshot in its snap field.
Terminate(t, op, r, how) ==
    /\ txn' = [txn EXCEPT ![t] = r.tx]
    /\ native' = IF /\ txn[t].st = "open" /\ r.tx.st = "closed"
                    /\ TxnSnapshot(txn[t]) /\ IterSnap
                 THEN releaseSnapshot ELSE native
    /\ tree' = r.tree
    /\ writer' = r.writer
    /\ crashed' = r.fatal
    /\ ret' = Ret(op, t, Nil, Nil, r.err)
    /\ hist' = [hist EXCEPT ![t] = IF r.fatal THEN @ ELSE Ended(@, txn[t], how)]
    /\ UNCHANGED <<walk, bg, backend, iters, nops, born>>

TxnRollback(t) ==
    /\ ~crashed
    /\ txn[t].st \in {"open", "closed"}
    /\ Terminate(t, "Rollback", TxnRollbackResult(txn[t]), "rollback")

\* leveldb_write: all of the batch or, when the engine fails, none of it
levelWrite(batch, ok) == IF ok THEN ApplyBatch(tree, batch) ELSE tree

StorageErr(ok) == IF ok THEN "nil" ELSE "StorageError"

\* levelTxn.Commit (first revision): refused once t.batch is nil; otherwise
\* leveldb_write, t.db.writer.Unlock(), t.close()
levelTxnCommit(tx, ok) ==
    IF tx.st = "closed" THEN Outcome(tx, tree, writer, FALSE, "unopened")
    ELSE LET u == Unlock(writer)
         IN  IF u.fatal THEN Outcome(tx, levelWrite(tx.batch, ok), writer, TRUE, "fatal")
             ELSE Outcome(levelTxnClose(tx), levelWrite(tx.batch, ok), u.held, FALSE,
                          StorageErr(ok))

\* levelTxn.Commit (second revision): no check; on a closed transaction
\* leveldb_write is handed nil options and a nil batch, which it dereferences
levelTxnCommit2(tx, ok) ==
    IF tx.st = "closed" THEN Outcome(tx, tree, writer, TRUE, "fatal")
    ELSE LET u == Unlock(writer)
         IN  IF u.fatal THEN Outcome(tx, levelWrite(tx.batch, ok), writer, TRUE, "fatal")
             ELSE Outcome(levelTxnClose(tx), levelWrite(tx.batch, ok), u.held, FALSE,
                          StorageErr(ok))

\* boltTxn.Commit: nothing once t.tx is nil; tx.Commit installs the
\* transaction's pages or, on failure, rolls back; the lock is released either way
boltTxnCommit(tx, ok) ==
    IF tx.st = "closed" THEN Outcome(tx, tree, writer, FALSE, "nil")
    ELSE Outcome(boltTxnClose(tx), IF ok THEN tx.view ELSE tree, FALSE, FALSE,
                 StorageErr(ok))

TxnCommitResult(tx, ok) ==
    CASE backend = "levelrw" -> levelTxnCommit(tx, ok)
      [] backend \in LevelTxns -> levelTxnCommit2(tx, ok)
      [] OTHER -> boltTxnCommit(tx, ok)

\* Commit is a method of RWTxn: only a transaction from Writable()/Txn() has it
TxnCommit(t, ok) ==
    /\ ~crashed
    /\ txn[t].st \in {"open", "closed"} /\ txn[t].rw
    /\ Terminate(t, "Commit", TxnCommitResult(txn[t], ok),
                 IF ok THEN "commit" ELSE "commitfail")

\* ------------------------------------------------------------ iterators
\* LevelDB.Iterator / newLevelIterator(db, true) / BoltDB.Iterator: a snapshot
\* (bolt: a read transaction) of the database as it is now, and a cursor over it
NewIterator == [st |-> "open", view |-> tree, pos |-> Nil]

Iterator(i) ==
    /\ ~crashed
    /\ iters[i].st = "none"
    /\ \A j \in IterIds : j < i => iters[j].st # "none"
    /\ iters' = [iters EXCEPT ![i] = NewIterator]
    /\ born' = [born EXCEPT ![i] = tree]
    /\ walk' = [walk EXCEPT ![i] = NoWalk]
    /\ native' = createSnapshot
    /\ ret' = Ret("Iterator", i, Nil, Nil, "nil")
    /\ UNCHANGED <<bg, backend, tree, writer, txn, crashed, hist, nops>>

\* the view an open iterator reads: the one taken when it was made
\* (IterViewLive is the variant without the snapshot: the database as it is now)
IterViewLive(i) == tree

IterView(i) == iters[i].view

MinKey(S) == CHOOSE k \in S : \A j \in S : bytesCompare(k, j) <= 0
MaxKey(S) == CHOOSE k \in S : \A j \in S : bytesCompare(k, j) >= 0
FirstKey(view) == IF Present(view) = {} THEN Nil ELSE MinKey(Present(view))
LastKey(view) == IF Present(view) = {} THEN Nil ELSE MaxKey(Present(view))
\* (NextKeySkip is the variant of leveldb_iter_next that steps to the last key)
NextKeySkip(view, k) ==
    LET S == {j \in Present(view) : bytesCompare(j, k) > 0}
    IN  IF S = {} THEN Nil ELSE MaxKey(S)
\* leveldb_iter_next / leveldb_iter_prev from a valid position
NextKey(view, k) ==
    LET S == {j \in Present(view) : bytesCompare(j, k) > 0}
    IN  IF S = {} THEN Nil ELSE MinKey(S)
PrevKey(view, k) ==
    LET S == {j \in Present(view) : bytesCompare(j, k) < 0}
    IN  IF S = {} THEN Nil ELSE MaxKey(S)

\* a positioning call's result: the new position and the pair returned
Pos(p, k, view) ==
    [pos |-> p, key |-> k, val |-> IF k = Nil THEN Nil ELSE view[k], err |-> "nil"]

\* levelIterator.current after isValid
Current(p, view) == Pos(p, p, view)

\* (levelIteratorNextWrap is the variant of Next without the isValid test
\* before the step, which starts over at the first key)
levelIteratorNextWrap(view, pos) ==
    IF pos = Nil THEN Pos(FirstKey(view), FirstKey(view), view)
    ELSE Pos(NextKey(view, pos), NextKey(view, pos), view)
\* levelIterator.Seek / First / Last / Next / Prev (the same in every revision)
levelIteratorSeek(view, pos, key) ==
    IF key = Empty THEN [pos |-> pos, key |-> Nil, val |-> Nil, err |-> "panic"]
    ELSE Current(SeekKey(view, key), view)
levelIteratorFirst(view, pos) == Current(FirstKey(view), view)
levelIteratorLast(view, pos) == Current(LastKey(view), view)
levelIteratorNext(view, pos) ==
    IF pos = Nil THEN Pos(pos, Nil, view) ELSE Current(NextKey(view, pos), view)
levelIteratorPrev(view, pos) ==
    IF pos = Nil THEN Pos(pos, Nil, view) ELSE Current(PrevKey(view, pos), view)

\* boltIterator: bolt's Cursor. Stepping past the last pair returns nil and
\* leaves the cursor on the last pair; a cursor never positioned returns nil.
boltCursorNext(view, pos) ==
    IF pos = Nil \/ NextKey(view, pos) = Nil THEN Pos(pos, Nil, view)
    ELSE Current(NextKey(view, pos), view)
\* Cursor.Seek past the last key leaves the cursor behind the last pair
boltIteratorSeek(view, pos, key) ==
    IF SeekKey(view, key) = Nil THEN Pos(LastKey(view), Nil, view)
    ELSE Current(SeekKey(view, key), view)
boltIteratorFirst(view, pos) == Current(FirstKey(view), view)
boltIteratorLast(view, pos) == Current(LastKey(view), view)
boltIteratorNext(view, pos) == boltCursorNext(view, pos)
\* boltIterator.Prev returns i.c.Next()
boltIteratorPrev(view, pos) == boltCursorNext(view, pos)

\* history: a traversal starts at First (ascending) or Last (descending), goes
\* on with each Next (Prev) that returns a key, is over when one returns nil;
\* any other call ends it
Traversed(w, op, r) ==
    IF op \in {"First", "Last"}
    THEN [dir |-> IF op = "First" THEN "asc" ELSE "desc",
          seen |-> IF r.key = Nil THEN <<>> ELSE <<r.key>>,
          done |-> r.key = Nil, nils |-> 0]
    ELSE IF \/ op = "Next" /\ w.dir = "asc" /\ ~w.done
            \/ op = "Prev" /\ w.dir = "desc" /\ ~w.done
    THEN IF r.key = Nil THEN [w EXCEPT !.done = TRUE]
         ELSE [w EXCEPT !.seen = Append(@, r.key)]
    ELSE NoWalk

\* nils: how many calls in a row, up to now, returned (nil, nil): the cursor is
\* exhausted while it is positive
Walked(w, op, r) ==
    [Traversed(w, op, r) EXCEPT !.nils =
        IF r.err # "nil" THEN w.nils
        ELSE IF r.key # Nil THEN 0
        ELSE IF w.nils < MaxNils THEN w.nils + 1 ELSE MaxNils]

Moved(i, op, key, r) ==
    /\ iters' = [iters EXCEPT ![i].pos = r.pos]
    /\ walk' = [walk EXCEPT ![i] = Walked(@, op, r)]
    /\ ret' = Ret(op, i, r.key, r.val, r.err)
    /\ UNCHANGED <<native, bg, backend, tree, writer, txn, crashed, hist, nops, born>>

IterSeek(i, key) ==
    /\ ~crashed /\ iters[i].st = "open"
    /\ Moved(i, "Seek", key,
             IF backend = "bolt" THEN boltIteratorSeek(IterView(i), iters[i].pos, key)
             ELSE levelIteratorSeek(IterView(i), iters[i].pos, key))

IterFirst(i) ==
    /\ ~crashed /\ iters[i].st = "open"
    /\ Moved(i, "First", Nil,
             IF backend = "bolt" THEN boltIteratorFirst(IterView(i), iters[i].pos)
             ELSE levelIteratorFirst(IterView(i), iters[i].pos))

IterLast(i) ==
    /\ ~crashed /\ iters[i].st = "open"
    /\ Moved(i, "Last", Nil,
             IF backend = "bolt" THEN boltIteratorLast(IterView(i), iters[i].pos)
             ELSE levelIteratorLast(IterView(i), iters[i].pos))

IterNext(i) ==
    /\ ~crashed /\ iters[i].st = "open"
    /\ Moved(i, "Next", Nil,
             IF backend = "bolt" THEN boltIteratorNext(IterView(i), iters[i].pos)
             ELSE levelIteratorNext(IterView(i), iters[i].pos))

IterPrev(i) ==
    /\ ~crashed /\ iters[i].st = "open"
    /\ Moved(i, "Prev", Nil,
             IF backend = "bolt" THEN boltIteratorPrev(IterView(i), iters[i].pos)
             ELSE levelIteratorPrev(IterView(i), iters[i].pos))

\* levelIterator.Close / boltIterator.Close of an open iterator
IterClose(i) ==
    /\ ~crashed /\ iters[i].st = "open"
    /\ iters' = [iters EXCEPT ![i] = [st |-> "closed", view |-> EmptyView, pos |-> Nil]]
    /\ born' = [born EXCEPT ![i] = EmptyView]
    /\ walk' = [walk EXCEPT ![i] = NoWalk]
    /\ native' = IF IterSnap THEN releaseSnapshot ELSE native
    /\ ret' = Ret("Close", i, Nil, Nil, "nil")
    /\ UNCHANGED <<bg, backend, tree, writer, txn, crashed, hist, nops>>

\* Close of an iterator that was closed before.
\* levelIterator.Close (first revision): i.db is nil, the call is refused
levelIteratorCloseEnded == "unopened"
\* levelIterator.Close (second revision): no check; leveldb_iter_destroy is
\* handed the nil i.iter, which it dereferences
levelIteratorCloseEnded2 == "fatal"
\* boltIterator.Close: nothing once i.tx is nil
boltIteratorCloseEnded == "nil"

IterCloseEndedResult ==
    CASE backend = "levelrw" -> levelIteratorCloseEnded
      [] backend \in LevelTxns -> levelIteratorCloseEnded2
      [] OTHER -> boltIteratorCloseEnded

IterCloseEnded(i) ==
    /\ ~crashed /\ iters[i].st = "closed"
    /\ ret' = Ret("Close", i, Nil, Nil, IterCloseEndedResult)
    /\ crashed' = (IterCloseEndedResult = "fatal")
    /\ UNCHANGED <<native, walk, bg, backend, tree, writer, txn, iters, hist, nops, born>>

\* ------------------------------------------------------------ Close
Closed(err) == [n |-> [native EXCEPT !.open = FALSE], err |-> err]

\* LevelDB.Close (first and second revision): refused once db.tree is nil;
\* otherwise the options and the database are destroyed and db.tree set to nil
levelDBClose(o) == IF native.open THEN Closed("nil") ELSE [n |-> native, err |-> "unopened"]
\* LevelDB.Close (third revision): the destroy calls and leveldb_close, unguarded
\* and without clearing the fields. A second call frees the same objects again:
\* the process faults or goes on (o), and the call returns nil if it goes on.
levelDBClose3(o) == IF native.open THEN Closed("nil") ELSE Closed(o)
\* BoltDB.Close: db.tree.Close(), which does nothing on a closed database and
\* returns nil
boltDBClose(o) == Closed("nil")

DBCloseResult(o) ==
    CASE backend \in {"levelrw", "leveltxn"} -> levelDBClose(o)
      [] backend = "leveltxn3" -> levelDBClose3(o)
      [] OTHER -> boltDBClose(o)

\* o: what the build makes of freeing an object twice
DBClose(o) ==
    /\ ~crashed
    /\ native.closes < MaxCloses
    /\ LET r == DBCloseResult(o)
       IN  /\ native' = [r.n EXCEPT !.closes = @ + 1]
           /\ ret' = Ret("DBClose", 0, Nil, Nil, r.err)
           /\ crashed' = (r.err = "fatal")
    /\ UNCHANGED <<walk, bg, backend, tree, writer, txn, iters, hist, nops, born>>

\* ------------------------------------------------------------ WriteTo
\* LevelDB.WriteTo (every revision): panic("LevelDB: WriteTo not implemented")
levelDBWriteTo(ok) == [out |-> <<>>, err |-> "panic"]
\* BoltDB.WriteTo: tx.WriteTo(w) inside a read transaction: the database as it
\* is now goes to the writer; ok: the writer takes it
boltDBWriteTo(ok) ==
    IF ok THEN [out |-> <<tree>>, err |-> "nil"] ELSE [out |-> <<>>, err |-> "StorageError"]

DBWriteToResult(ok) == IF backend = "bolt" THEN boltDBWriteTo(ok) ELSE levelDBWriteTo(ok)

DBWriteTo(ok) ==
    /\ ~crashed
    /\ LET r == DBWriteToResult(ok)
       IN  ret' = Ret("WriteTo", 0, Nil, r.out, r.err)
    /\ UNCHANGED <<native, walk, bg, backend, tree, writer, txn, iters, crashed, hist, nops, born>>

\* ------------------------------------------------------------ facade Get
\* The result of Get(key, getter): found, the values handed to the getter (none
\* if it was not invoked), and the error. ok: the getter returns nil.
\* LevelDB.Get (second revision): a snapshot of the database as it is now, one
\* leveldb_get; an absent key is handed to the getter as nil
levelDBGet(key, ok) ==
    IF key = Empty THEN [found |-> FALSE, handed |-> <<>>, err |-> "panic"]
    ELSE [found |-> tree[key] # Nil, handed |-> <<tree[key]>>,
          err |-> IF ok THEN "nil" ELSE "GetterError"]

\* BoltDB.Get: a View transaction, Bucket.Get; for an absent key the function
\* returns before the getter is reached
boltDBGet(key, ok) ==
    LET value == IF key = Empty THEN Nil ELSE tree[key]
    IN  IF value = Nil THEN [found |-> FALSE, handed |-> <<>>, err |-> "nil"]
        ELSE [found |-> TRUE, handed |-> <<value>>,
              err |-> IF ok THEN "nil" ELSE "GetterError"]

DBGetResult(key, ok) ==
    IF backend = "bolt" THEN boltDBGet(key, ok) ELSE levelDBGet(key, ok)

DBGet(key, ok) ==
    /\ ~crashed
    /\ backend # "levelrw"
    /\ LET r == DBGetResult(key, ok)
       IN  ret' = Ret("DBGet", 0, key, [found |-> r.found, handed |-> r.handed], r.err)
    /\ native' = releaseSnapshotOf(createSnapshot)
    /\ UNCHANGED <<walk, bg, backend, tree, writer, txn, iters, crashed, hist, nops, born>>

\* LevelDB.Get when leveldb_get fails: `return v != nil, err` with v nil; the
\* deferred function releases the snapshot. (Bucket.Get of Bolt cannot fail.)
DBGetReadError(key) ==
    /\ ~crashed
    /\ backend \in LevelTxns
    /\ key # Empty
    /\ ret' = Ret("DBGet", 0, key, [found |-> FALSE, handed |-> <<>>], "StorageError")
    /\ native' = releaseSnapshotOf(createSnapshot)
    /\ UNCHANGED <<walk, bg, backend, tree, writer, txn, iters, crashed, hist, nops, born>>

\* ------------------------------------------------------------ facade BatchGet
\* The pairs handed to the getter, in order, and the error returned. The getter
\* is the caller's; here it returns nil.
RECURSIVE levelBatchWalk(_, _, _)
\* LevelDB.BatchGet (second revision): one snapshot; &key[0] panics on an empty
\* key; an absent key is handed to the getter as nil and the call returns
levelBatchWalk(keys, n, out) ==
    IF n > Len(keys) THEN <<out, "nil">>
    ELSE IF keys[n] = Empty THEN <<out, "panic">>
    ELSE IF tree[keys[n]] = Nil THEN <<Append(out, <<keys[n], Nil>>), "nil">>
    ELSE levelBatchWalk(keys, n + 1, Append(out, <<keys[n], tree[keys[n]]>>))

levelDBBatchGet(keys) == levelBatchWalk(keys, 1, <<>>)

\* BoltDB.BatchGet: one View transaction; every key is handed to the getter
boltDBBatchGet(keys) ==
    <<[n \in 1..Len(keys) |->
          <<keys[n], IF keys[n] = Empty THEN Nil ELSE tree[keys[n]]>>], "nil">>

DBBatchGetResult(keys) ==
    IF backend = "bolt" THEN boltDBBatchGet(keys) ELSE levelDBBatchGet(keys)

DBBatchGet(keys) ==
    /\ ~crashed
    /\ backend # "levelrw"
    /\ LET r == DBBatchGetResult(keys)
       IN  ret' = Ret("BatchGet", 0, keys, r[1], r[2])
    /\ UNCHANGED <<native, walk, bg, backend, tree, writer, txn, iters, crashed, hist, nops, born>>

\* ------------------------------------------------------------ BatchGet, key by key
\* The same BatchGet with its lookups as separate steps, so that commits can
\* fall between two lookups of one call, and with a getter that may fail.
GetterErr(ok) == IF ok THEN "nil" ELSE "GetterError"

\* one turn of LevelDB.BatchGet's loop: what is handed to the getter, whether
\* the call returns in this turn, and with which error
levelBatchLookup(view, key, ok) ==
    IF key = Empty THEN [hand |-> <<>>, over |-> TRUE, err |-> "panic"]
    ELSE IF view[key] = Nil
    THEN [hand |-> << <<key, Nil>> >>, over |-> TRUE, err |-> GetterErr(ok)]
    ELSE [hand |-> << <<key, view[key]>> >>, over |-> ~ok, err |-> GetterErr(ok)]

\* one turn of BoltDB.BatchGet's loop
boltBatchLookup(view, key, ok) ==
    [hand |-> << <<key, IF key = Empty THEN Nil ELSE view[key]>> >>,
     over |-> ~ok, err |-> GetterErr(ok)]

\* (BatchLookupOn is the variant whose loop goes on after a getter error.)
BatchLookupOn(view, key, ok) ==
    [boltBatchLookup(view, key, ok) EXCEPT !.over = FALSE]

BatchLookup(view, key, ok) ==
    IF backend = "bolt" THEN boltBatchLookup(view, key, ok)
    ELSE levelBatchLookup(view, key, ok)

\* the snapshot a BatchGet call reads: db.newSnapshot() / db.tree.View
\* (BatchViewLive is the variant without it: each lookup reads the database
\* as it is then)
BatchViewLive == tree

BatchView == bg.view

\* (BatchReleaseNoDefer is the variant that releases the snapshot at the end
\* of the function instead of in a deferred one)
BatchReleaseNoDefer(over, err) == IF over /\ err = "nil" THEN releaseSnapshot ELSE native
\* the deferred function of BatchGet (Bolt: View's rollback): the snapshot is
\* released however the call returns
BatchRelease(over, err) == IF over THEN releaseSnapshot ELSE native

\* BatchGet is entered: the snapshot is taken; with no keys the call returns
BatchGetCall(keys) ==
    /\ ~crashed
    /\ backend # "levelrw"
    /\ bg.st = "idle"
    /\ bg.calls < MaxBatchCalls
    /\ bg' = [st |-> IF keys = <<>> THEN "idle" ELSE "run", keys |-> keys, n |-> 1,
              view |-> IF keys = <<>> THEN EmptyView ELSE tree, out |-> <<>>,
              errs |-> 0, begin |-> tree, calls |-> bg.calls + 1]
    /\ native' = IF keys = <<>> THEN native ELSE createSnapshot
    /\ ret' = IF keys = <<>> THEN Ret("BatchGet", 0, keys, <<>>, "nil") ELSE ret
    /\ UNCHANGED <<walk, backend, tree, writer, txn, iters, crashed, hist, nops, born>>

\* one turn of the loop; ok: the getter returns nil. The call returns after
\* the last key, or earlier as the binding's loop decides.
BatchGetLookup(ok) ==
    /\ ~crashed
    /\ bg.st = "run"
    /\ LET r == BatchLookup(BatchView, bg.keys[bg.n], ok)
           out == bg.out \o r.hand
           over == r.over \/ bg.n = Len(bg.keys)
       IN  /\ bg' = [bg EXCEPT !.st = IF over THEN "idle" ELSE "run",
                               !.n = @ + 1,
                               !.view = IF over THEN EmptyView ELSE @,
                               !.out = out,
                               !.errs = IF r.err = "GetterError" THEN @ + 1 ELSE @]
           /\ native' = BatchRelease(over, r.err)
           /\ ret' = IF over THEN Ret("BatchGet", 0, bg.keys, out, r.err) ELSE ret
    /\ UNCHANGED <<walk, backend, tree, writer, txn, iters, crashed, hist, nops, born>>

\* one turn of the loop of LevelDB.BatchGet in which leveldb_get fails: the
\* call returns the error, nothing is handed to the getter for this key
BatchGetReadError ==
    /\ ~crashed
    /\ backend \in LevelTxns
    /\ bg.st = "run"
    /\ bg.keys[bg.n] # Empty
    /\ bg' = [bg EXCEPT !.st = "idle", !.n = @ + 1, !.view = EmptyView]
    /\ native' = BatchRelease(TRUE, "StorageError")
    /\ ret' = Ret("BatchGet", 0, bg.keys, bg.out, "StorageError")
    /\ UNCHANGED <<walk, backend, tree, writer, txn, iters, crashed, hist, nops, born>>

\* ------------------------------------------------------------ specification
\* the calls on the transaction handles T that begin, write or end
TxnWriteStepOf(T) ==
    \/ \E t \in T : Writable(t)
    \/ \E t \in T : WritableLock(t)
    \/ \E t \in T, k \in InputKeys, v \in InputValues : TxnPut(t, k, v)
    \/ \E t \in T, k \in InputKeys : TxnDelete(t, k)
    \/ \E t \in T : TxnRollback(t)
    \/ \E t \in T, ok \in BOOLEAN : TxnCommit(t, ok)

\* all the calls on the transaction handles T
TxnStepOf(T) ==
    \/ TxnWriteStepOf(T)
    \/ \E t \in T, k \in InputKeys : TxnGet(t, k)

IterStep ==
    \/ \E i \in IterIds : Iterator(i)
    \/ \E i \in IterIds, k \in InputKeys : IterSeek(i, k)
    \/ \E i \in IterIds : IterFirst(i)
    \/ \E i \in IterIds : IterLast(i)
    \/ \E i \in IterIds : IterNext(i)
    \/ \E i \in IterIds : IterPrev(i)
    \/ \E i \in IterIds : IterClose(i)

\* The transactions of a database, on any of the bindings.
Next ==
    \/ TxnStepOf(1..MaxTxnAll)
    \/ \E t \in 1..MaxTxnAll : Readonly(t)

Spec == Init /\ [][Next]_vars

\* one binding at a time; the second LevelDB revision, whose handles stay
\* usable after they end, with one more handle
InitLevelRW == Init /\ backend = "levelrw"
InitLevelTxn == Init /\ backend = "leveltxn"
InitBolt == Init /\ backend = "bolt"

NextLevelTxn == TxnStepOf(TxnIds)
NextBolt == TxnStepOf(1..MaxTxnAll)

SpecLevelRW == InitLevelRW /\ [][Next]_vars
SpecLevelTxn == InitLevelTxn /\ [][NextLevelTxn]_vars
SpecBolt == InitBolt /\ [][NextBolt]_vars

\* Transactions whose handles are used after Commit or Rollback.
EndedStep ==
    \/ \E t \in 1..MaxTxnIter, k \in InputKeys : TxnGetEnded(t, k)
    \/ \E t \in 1..MaxTxnIter, k \in InputKeys, v \in InputValues : TxnPutEnded(t, k, v)
    \/ \E t \in 1..MaxTxnIter, k \in InputKeys : TxnDeleteEnded(t, k)

NextEnded ==
    \/ TxnWriteStepOf(1..MaxTxnIter)
    \/ \E t \in 1..MaxTxnIter : Readonly(t)
    \/ EndedStep

SpecEnded == Init /\ [][NextEnded]_vars

\* The facade's BatchGet beside the writes of the first MaxTxnIter handles.
InitFacade == Init /\ backend # "levelrw"

NextBatch ==
    \/ TxnWriteStepOf(1..MaxTxnIter)
    \/ \E ks \in KeySeqs : BatchGetCall(ks)
    \/ \E ok \in BOOLEAN : BatchGetLookup(ok)

SpecBatch == InitFacade /\ [][NextBatch]_vars

\* The facade's Get and BatchGet on every way out, the engine's read errors
\* included.
NextReads ==
    \/ \E k \in InputKeys, ok \in BOOLEAN : DBGet(k, ok)
    \/ \E k \in InputKeys : DBGetReadError(k)
    \/ \E ks \in KeySeqs : BatchGetCall(ks)
    \/ \E ok \in BOOLEAN : BatchGetLookup(ok)
    \/ BatchGetReadError

SpecReads == InitFacade /\ [][NextReads]_vars

\* Readers outside the transactions: iterators and the facade's Get, beside
\* the writes of the first MaxTxnIter handles.
NextIter ==
    \/ TxnWriteStepOf(1..MaxTxnIter)
    \/ IterStep
    \/ \E k \in InputKeys, ok \in BOOLEAN : DBGet(k, ok)

\* the facade's reads next to writing transactions
NextFacade ==
    \/ TxnWriteStepOf(1..MaxTxnIter)
    \/ \E k \in InputKeys, ok \in BOOLEAN : DBGet(k, ok)
    \/ \E ks \in KeySeqs : DBBatchGet(ks)
    \/ \E ok \in BOOLEAN : DBWriteTo(ok)

NextIterLevelRW ==
    \/ TxnWriteStepOf(1..MaxTxnIter)
    \/ \E t \in 1..MaxTxnIter : Readonly(t)
    \/ IterStep

\* iterators, and Close of a closed one
NextIterEnded ==
    \/ IterStep
    \/ \E i \in IterIds : IterCloseEnded(i)

\* A database that is used, then closed when no transaction is open, and
\* closed again.
InitClose ==
    /\ backend \in Backends \cup LevelTxns
    /\ Opened

Quiet == \A t \in TxnIds : txn[t].st # "open"

Use == native.open /\ TxnStepOf(1..MaxTxnIter)

CloseQuiet == Quiet /\ \E o \in {"nil", "fatal"} : DBClose(o)

NextClose ==
    \/ Use
    \/ CloseQuiet

SpecClose == InitClose /\ [][NextClose]_vars
SpecIter == Init /\ [][NextIter]_vars
SpecIterEnded == Init /\ [][NextIterEnded]_vars
SpecFacade == InitFacade /\ [][NextFacade]_vars
SpecIterLevelRW == InitLevelRW /\ [][NextIterLevelRW]_vars
SpecIterLevelTxn == InitLevelTxn /\ [][NextIter]_vars
SpecIterBolt == InitBolt /\ [][NextIter]_vars

\* ============================================================ properties
OpenWritable == {t \in TxnIds : txn[t].st = "open" /\ txn[t].rw}

\* the last call was Get(key) on the open transaction t, and it returned
GotFrom(t) ==
    /\ ret.op = "Get" /\ ret.id = t /\ ret.key \in KeySet /\ ret.err # "panic"
    /\ txn[t].st = "open"

\* this step is the call `op` on transaction t, open until then, ending it
Ends(t, op) ==
    /\ txn[t].st = "open" /\ txn[t].rw
    /\ txn'[t].st = "closed"
    /\ ret'.op = op /\ ret'.id = t

\* C1: single-writer exclusion: at most one transaction obtained from
\* Txn()/Writable() is open at any time (so a second call does not return
\* while the first is open).
C1_SingleWriter == Cardinality(OpenWritable) <= 1

\* C2: Rollback of a writable transaction releases the writer lock: once the
\* Rollback of an open writable transaction has returned, the lock is free, so
\* that a Txn()/Writable() call waiting for it, or made after it, can return.
C2_RollbackReleasesLock ==
    [][\A t \in TxnIds : Ends(t, "Rollback") => ~writer']_vars

\* C3: read-your-writes: Get(k) on an open transaction whose last write of k
\* was Put(k, v) returns v, before Commit.
C3_ReadYourWrites ==
    \A t \in TxnIds :
        (GotFrom(t) /\ hist[t].written[ret.key] \notin {Unset, Nil})
            => (ret.val = hist[t].written[ret.key] /\ ret.err = "nil")

C3_Witness ==
    \E t \in TxnIds :
        /\ GotFrom(t)
        /\ hist[t].written[ret.key] \in ValueSet
        /\ ret.val = hist[t].written[ret.key]
        /\ tree[ret.key] # ret.val

\* C4: tombstone shadowing: Get(k) on an open transaction whose last write of
\* k was Delete(k) reports not-found, even if k was in the store at its begin.
C4_TombstoneShadowing ==
    \A t \in TxnIds :
        (GotFrom(t) /\ hist[t].written[ret.key] = Nil) => ret.val = Nil

\* C5: atomic visibility: when Commit returns without error the store (what a
\* fresh Iterator or Get reads) holds the effect of every Put and Delete of the
\* transaction; when the engine's write fails it holds none of them.
C5_AtomicVisibility ==
    [][\A t \in TxnIds : Ends(t, "Commit") =>
          IF ret'.err = "nil"
          THEN \A k \in KeySet :
                  hist[t].written[k] # Unset => tree'[k] = hist[t].written[k]
          ELSE tree' = tree]_vars

\* C6: Rollback no-op: after the Rollback of a writable transaction the store's
\* contents equal its contents when the transaction began.
C6_RollbackNoop ==
    [][\A t \in TxnIds : Ends(t, "Rollback") => tree' = hist[t].begin]_vars

\* this step is a Put or Delete of the open transaction t
Writes(t) ==
    /\ txn[t].st = "open"
    /\ ret'.op \in {"Put", "Delete"} /\ ret'.id = t
    /\ nops' = nops + 1

\* C7: uncommitted writes are invisible outside the transaction: a Put or
\* Delete of an open transaction leaves the store unchanged, so that an
\* Iterator, Get or BatchGet made after it (before Commit) reads for every key
\* what it would have read before it, and open iterators keep their view.
C7_UncommittedInvisible ==
    [][\A t \in TxnIds : Writes(t) =>
          /\ tree' = tree
          /\ iters' = iters
          /\ NewIterator' = NewIterator
          /\ \A k \in InputKeys, ok \in BOOLEAN : DBGetResult(k, ok)' = DBGetResult(k, ok)
          /\ \A ks \in KeySeqs : DBBatchGetResult(ks)' = DBBatchGetResult(ks)]_vars

\* a read outside the transaction returned, after the open transaction t had
\* put another value for the key read, the value from before the transaction
C7_Witness ==
    \E t \in TxnIds :
        /\ txn[t].st = "open"
        /\ \/ /\ ret.op = "DBGet" /\ ret.key \in KeySet
              /\ hist[t].written[ret.key] \in ValueSet
              /\ hist[t].begin[ret.key] # hist[t].written[ret.key]
              /\ ret.val.handed = <<hist[t].begin[ret.key]>>
           \/ /\ ret.op \in {"Seek", "First", "Last"} /\ ret.key \in KeySet
              /\ iters[ret.id].st = "open"
              /\ hist[t].written[ret.key] \in ValueSet
              /\ born[ret.id] = hist[t].begin
              /\ ret.val # hist[t].written[ret.key]
              /\ ret.val = hist[t].begin[ret.key]

IterOps == {"Seek", "First", "Last", "Next", "Prev"}

\* C8: snapshot isolation of cursors: every pair a positioning call on an open
\* iterator returns is a pair of the store as it was when Iterator() returned,
\* whatever has been committed since.
C8_IteratorSnapshot ==
    (ret.op \in IterOps /\ ret.err = "nil" /\ iters[ret.id].st = "open")
        => IF ret.key = Nil THEN ret.val = Nil
           ELSE /\ ret.key \in Present(born[ret.id])
                /\ ret.val = born[ret.id][ret.key]

\* a positioning call returned a pair of the snapshot that a transaction
\* committed since has overwritten or deleted
C8_Witness ==
    /\ ret.op \in IterOps /\ ret.err = "nil" /\ iters[ret.id].st = "open"
    /\ ret.key \in KeySet
    /\ ret.val = born[ret.id][ret.key]
    /\ tree[ret.key] # ret.val

\* C9: Get of a key the transaction has not written returns the value the key
\* had in the committed store when the transaction began.
C9_GetReadsBeginState ==
    \A t \in TxnIds :
        (GotFrom(t) /\ hist[t].written[ret.key] = Unset)
            => ret.val = hist[t].begin[ret.key]

\* C10: Get of a key that is neither among the transaction's writes nor in the
\* database returns (nil, ErrNotFound), never (nil, nil).
C10_GetNotFound ==
    \A t \in TxnIds :
        (GotFrom(t) /\ hist[t].written[ret.key] = Unset
                    /\ hist[t].begin[ret.key] = Nil /\ tree[ret.key] = Nil)
            => (ret.val = Nil /\ ret.err = "ErrNotFound")

\* this step is the call `op`, for a key that is not empty, on transaction t,
\* which had ended before (a call on an ended handle begins and ends no
\* transaction)
EndedCall(t, op) ==
    /\ txn[t].st = "closed"
    /\ \A u \in TxnIds : txn'[u].st = txn[u].st
    /\ ret'.op = op /\ ret'.id = t /\ ret'.key \in KeySet

\* C11: after a transaction has ended by Commit or Rollback, every further Get,
\* Put or Delete on it fails with a "transaction closed" error: it does not
\* return nil, does not end the process, and leaves the store alone.
C11_EndedCallsRefused ==
    [][\A t \in TxnIds : \A op \in {"Get", "Put", "Delete"} :
          EndedCall(t, op) =>
              /\ ret'.err \notin {"nil", "fatal", "panic"}
              /\ ~crashed'
              /\ tree' = tree]_vars

\* this step is Commit or Rollback (op) called on transaction t, which had
\* ended before
EndedAgain(t, op) ==
    /\ txn[t].st = "closed"
    /\ \A u \in TxnIds : txn'[u].st = txn[u].st
    /\ ret'.op = op /\ ret'.id = t

\* C12: double termination: Commit or Rollback on a transaction that was
\* already committed or rolled back fails with an error and does not touch the
\* writer lock again, so that a lock held by a later transaction stays held.
C12_DoubleTermination ==
    [][\A t \in TxnIds : \A op \in {"Commit", "Rollback"} :
          EndedAgain(t, op) =>
              /\ ret'.err \notin {"nil", "fatal", "panic"}
              /\ ~crashed'
              /\ writer' = writer
              /\ tree' = tree]_vars

\* a key-by-key BatchGet call has returned
BatchReturned == bg.calls > 0 /\ bg.st = "idle"

\* what the getter is handed for key k by a call that began on the tree `view`
Handed(view, k) == <<k, IF k = Empty THEN Nil ELSE view[k]>>

\* C13: BatchGet invokes the callback once for each key of the input, in input
\* order, with the stored value or, for a key that does not exist, with nil;
\* as long as no callback fails, keys after an absent key are visited too.
C13_BatchGetVisitsAll ==
    (BatchReturned /\ bg.errs = 0 /\ \A n \in 1..Len(bg.keys) : bg.keys[n] \in KeySet)
        => bg.out = [n \in 1..Len(bg.keys) |-> Handed(bg.begin, bg.keys[n])]

\* C14: BatchGet stops at the first callback failure: the turn of the loop in
\* which the getter fails is the call's last, the call returns the getter's
\* error, and no turn changes the store.
C14_BatchGetStopsOnError ==
    [][(bg.st = "run" /\ bg' # bg) =>
          /\ tree' = tree
          /\ bg'.errs > 0 =>
                /\ bg'.st = "idle"
                /\ bg'.errs = 1
                /\ Len(bg'.out) = Len(bg.out) + 1
                /\ ret' = Ret("BatchGet", 0, bg.keys, bg'.out, "GetterError")]_vars

\* the getter failed on the first of two keys and the call returned its error
C14_Witness ==
    /\ BatchReturned /\ bg.errs = 1
    /\ Len(bg.keys) = 2 /\ Len(bg.out) = 1
    /\ ret = Ret("BatchGet", 0, bg.keys, bg.out, "GetterError")

\* C15: BatchGet reads all its keys from one snapshot: every value handed to
\* the callback is the key's value in the store as it was when the call
\* started, whatever is committed between two lookups.
C15_BatchGetOneSnapshot ==
    \A n \in 1..Len(bg.out) : bg.out[n] = Handed(bg.begin, bg.keys[n])

\* a call has returned that handed over, for its second key, the value of the
\* snapshot although a commit made since the call started had changed it
C15_Witness ==
    /\ BatchReturned /\ Len(bg.out) = 2
    /\ ret = Ret("BatchGet", 0, bg.keys, bg.out, "nil")
    /\ bg.keys[2] \in KeySet
    /\ bg.out[2] = Handed(bg.begin, bg.keys[2])
    /\ tree[bg.keys[2]] # bg.begin[bg.keys[2]]

\* C16: the facade's Get(key, callback) returns found = true exactly when the
\* key exists in the committed store, and the callback is invoked once also
\* when the key is not found, then with nil.
C16_GetInvokesGetter ==
    (ret.op = "DBGet" /\ ret.key \in KeySet)
        => /\ ret.val.found = (tree[ret.key] # Nil)
           /\ ret.val.handed = <<tree[ret.key]>>

\* a handle for which Readonly() can be called, an iterator for Iterator()
CanReadonly(t) == ~crashed /\ backend = "levelrw" /\ NextFree(t)
CanIterate(i) ==
    ~crashed /\ iters[i].st = "none" /\ \A j \in IterIds : j < i => iters[j].st # "none"

\* C17: Iterator() and Readonly() never block on the writer lock: each can
\* return whether or not a writable transaction is open, and neither acquires
\* nor releases the lock.
C17_ReadersNeverLock ==
    /\ [](\A t \in 1..MaxTxnIter : CanReadonly(t) => ENABLED Readonly(t))
    /\ [](\A i \in IterIds : CanIterate(i) => ENABLED Iterator(i))
    /\ [][(ret' # ret /\ ret'.op \in {"Readonly", "Iterator"}) => writer' = writer]_vars

\* Iterator() has returned, and before it Readonly() had (handles are taken in
\* order), while an earlier writable transaction is still open and holds the lock
C17_Witness ==
    /\ ret.op = "Iterator" /\ iters[ret.id].st = "open"
    /\ writer
    /\ \E u, r \in TxnIds :
          /\ u < r
          /\ txn[u].st = "open" /\ txn[u].rw
          /\ txn[r].st = "open" /\ ~txn[r].rw

\* the keys a traversal returned, and their order
Elems(s) == {s[n] : n \in 1..Len(s)}
Increasing(s) == \A m, n \in 1..Len(s) : m < n => bytesCompare(s[m], s[n]) < 0
Decreasing(s) == \A m, n \in 1..Len(s) : m < n => bytesCompare(s[m], s[n]) > 0

\* C18: First() followed by repeated Next() until nil is returned visits every
\* key of the iterator's snapshot exactly once, in strictly increasing byte order.
C18_AscendingOrder ==
    \A i \in IterIds :
        walk[i].dir = "asc"
            => /\ Increasing(walk[i].seen)
               /\ Elems(walk[i].seen) \subseteq Present(born[i])
               /\ walk[i].done => Elems(walk[i].seen) = Present(born[i])

C18_Witness ==
    \E i \in IterIds :
        /\ walk[i].dir = "asc" /\ walk[i].done
        /\ Len(walk[i].seen) >= 2
        /\ ret.op = "Next" /\ ret.id = i /\ ret.key = Nil
        /\ Present(tree) # Present(born[i])

\* C19: Last() followed by repeated Prev() until nil is returned visits every
\* key of the iterator's snapshot exactly once, in strictly decreasing byte
\* order, on both backends.
C19_DescendingOrder ==
    \A i \in IterIds :
        walk[i].dir = "desc"
            => /\ Decreasing(walk[i].seen)
               /\ Elems(walk[i].seen) \subseteq Present(born[i])
               /\ walk[i].done => Elems(walk[i].seen) = Present(born[i])

\* what Next() and Prev() would return on iterator i as it is now
NextOf(i) ==
    IF backend = "bolt" THEN boltIteratorNext(IterView(i), iters[i].pos)
    ELSE levelIteratorNext(IterView(i), iters[i].pos)
PrevOf(i) ==
    IF backend = "bolt" THEN boltIteratorPrev(IterView(i), iters[i].pos)
    ELSE levelIteratorPrev(IterView(i), iters[i].pos)
Exhausted(i) == NextOf(i).key = Nil /\ PrevOf(i).key = Nil

\* the keys of iterator i's snapshot that are >= x
AtOrAfter(i, x) == {k \in Present(born[i]) : bytesCompare(k, x) >= 0}

\* C20: for every target x, Seek(x) positions the cursor at, and returns, the
\* smallest key of the snapshot that is >= x, with its value; if there is no
\* such key the cursor becomes exhausted and (nil, nil) is returned.
C20_SeekCeiling ==
    [][\A i \in IterIds, x \in InputKeys :
          IterSeek(i, x)
              => IF AtOrAfter(i, x) = {}
                 THEN ret'.key = Nil /\ ret'.val = Nil /\ ret'.err = "nil" /\ Exhausted(i)'
                 ELSE /\ ret'.key \in AtOrAfter(i, x)
                      /\ \A j \in AtOrAfter(i, x) : bytesCompare(ret'.key, j) <= 0
                      /\ ret'.val = born[i][ret'.key]
                      /\ iters'[i].pos = ret'.key]_vars

\* C21: an exhausted cursor stays exhausted under stepping: once a call on it
\* returned (nil, nil), every Next() and Prev() returns (nil, nil), however
\* many are made, until a Seek, First or Last.
C21_ExhaustedStays ==
    [][\A i \in IterIds :
          (walk[i].nils > 0 /\ (IterNext(i) \/ IterPrev(i)))
              => /\ ret'.key = Nil /\ ret'.val = Nil /\ ret'.err = "nil"
                 /\ walk'[i].nils > 0]_vars

C21_Witness ==
    \E i \in IterIds :
        /\ iters[i].st = "open" /\ walk[i].nils >= 2
        /\ ret.op \in {"Next", "Prev"} /\ ret.id = i /\ ret.key = Nil
        /\ Present(born[i]) # {}

\* C22: Iterator.Close is idempotent: Close of an iterator that is closed
\* already succeeds without error and releases nothing a second time.
C22_IterCloseIdempotent ==
    [][\A i \in IterIds :
          IterCloseEnded(i)
              => /\ ret'.err = "nil" /\ ~crashed'
                 /\ native' = native /\ iters' = iters]_vars

\* C23: a second Close() on the database returns an error and releases
\* nothing a second time, on both backends.
C23_SecondCloseRefused ==
    [][\A o \in {"nil", "fatal"} :
          (~native.open /\ DBClose(o))
              => /\ ret'.err \notin {"nil", "fatal"} /\ ~crashed'
                 /\ native'.open = native.open /\ native'.snaps = native.snaps]_vars

\* C24: WriteTo on the LevelDB backend, which has no native export, returns a
\* not-implemented error and writes nothing; it does not abort the caller.
C24_WriteToNotImplemented ==
    (ret.op = "WriteTo" /\ backend # "bolt")
        => ret.err = "NotImplemented" /\ ret.val = <<>> /\ ~crashed

\* C25: Commit always terminates the transaction: whether the engine applies
\* the batch or fails, Commit of an open transaction releases the writer lock
\* and the transaction's handles, leaves the transaction closed, and returns
\* the engine's failure, if any, as a storage error.
C25_CommitTerminates ==
    [][\A t \in TxnIds, ok \in BOOLEAN :
          (txn[t].st = "open" /\ TxnCommit(t, ok))
              => /\ ~crashed'
                 /\ txn'[t].st = "closed"
                 /\ ~writer'
                 /\ ret'.err = StorageErr(ok)]_vars

\* no iterator, transaction or BatchGet call is open
AllClosed ==
    /\ \A i \in IterIds : iters[i].st # "open"
    /\ \A t \in TxnIds : txn[t].st # "open"
    /\ bg.st = "idle"

\* C26: every snapshot made for an iterator or a transaction is released
\* exactly once, when its holder is closed: once all iterators and
\* transactions are closed no snapshot is live, and none is released twice.
C26_SnapshotsReleased ==
    /\ native.snaps >= 0
    /\ AllClosed => native.snaps = 0

\* C27: the facade's reads do not leak: however BatchGet or Get returns (all
\* keys served, key absent, callback failure, engine read error), the snapshot
\* and read options the call took have been released by then.
C27_FacadeReadsReleased ==
    /\ bg.st = "idle" => native.snaps = 0
    /\ bg.st = "run" => native.snaps = 1

\* BatchGet returned the engine's read error after it had served a key
C27_Witness ==
    /\ ret.op = "BatchGet" /\ ret.err = "StorageError"
    /\ bg.st = "idle" /\ bg.calls > 0 /\ Len(bg.out) >= 1
    /\ native.snaps = 0

\* C28: Rollback of an open transaction never fails: it returns no error,
\* whatever Put, Delete and Get calls came before it; only the Rollback of a
\* transaction that was terminated before may return an error.
C28_RollbackNeverFails ==
    [][\A t \in TxnIds :
          (txn[t].st = "open" /\ TxnRollback(t))
              => ret'.err = "nil" /\ ~crashed']_vars

\* C29: last-write-wins per key inside a transaction: after any sequence of
\* Put and Delete calls on key k in one open transaction, Get(k) returns what
\* the last of them left (the value of the last Put, not-found after a last
\* Delete), and after a Commit without error the store holds exactly that.
C29_LastWriteWins ==
    /\ [](\A t \in TxnIds :
            (GotFrom(t) /\ hist[t].written[ret.key] # Unset)
                => ret.val = hist[t].written[ret.key])
    /\ [][\A t \in TxnIds :
            (Ends(t, "Commit") /\ ret'.err = "nil")
                => \A k \in KeySet :
                      hist[t].written[k] # Unset => tree'[k] = hist[t].written[k]]_vars

\* C30: the overlay and the write buffer of an open LevelDB transaction agree:
\* replaying the batch's operations in append order over an empty map gives
\* exactly t.modified (the same keys, each with the same value or tombstone).
C30_OverlayIsBatch ==
    \A t \in TxnIds :
        (backend # "bolt" /\ txn[t].st = "open")
            => ApplyBatch(NoMap, txn[t].batch) = txn[t].modified

\* an open transaction whose batch holds a put and then a delete of one key
C30_Witness ==
    \E t \in TxnIds :
        /\ backend # "bolt"
        /\ txn[t].st = "open"
        /\ Len(txn[t].batch) = 2
        /\ txn[t].batch[1].op = "put"
        /\ txn[t].batch[2].op = "del"
        /\ txn[t].batch[1].key = txn[t].batch[2].key
        /\ txn[t].modified[txn[t].batch[1].key] = Nil

\* this step is a Rollback or Commit of handle t that reaches the Unlock of
\* the writer mutex: every Rollback of the second revision, a Rollback of the
\* first on a transaction marked writable, a Commit on a transaction not yet closed
ReachesUnlock(t) ==
    \/ /\ TxnRollback(t)
       /\ \/ backend \in LevelTxns
          \/ backend = "levelrw" /\ txn[t].st = "open" /\ txn[t].writable
    \/ /\ \E ok \in BOOLEAN : TxnCommit(t, ok)
       /\ backend # "bolt" /\ txn[t].st = "open"

\* C31: lock/transaction correspondence: in every reachable state the writer
\* mutex is held if and only if exactly one writable transaction is open; no
\* Rollback or Commit unlocks it while it is not held, and none leaves it held
\* with no writable transaction open.
C31_LockMatchesTxn ==
    /\ [](writer <=> Cardinality(OpenWritable) = 1)
    /\ [][\A t \in TxnIds : ReachesUnlock(t) => writer]_vars
    /\ [][\A t \in TxnIds :
            (Ends(t, "Rollback") \/ Ends(t, "Commit"))
                => (writer' <=> Cardinality(OpenWritable') = 1)]_vars

================================================================
